---- MODULE Spec2Model ----
(***************************************************************************)
(* Model of again-scraper-go: the sensor polling and metric publication    *)
(* loop.  Two revisions of the tool are modelled:                          *)
(*   - the current revision (src/main.go): main + egain.Client, one        *)
(*     sequential poll cycle per ticker tick, shared rate limiter;         *)
(*   - the goroutine-per-sensor revision (src/unnamed/part_000).           *)
(* Time is discrete; one time unit is the limiter's refill interval.       *)
(***************************************************************************)
EXTENDS Integers, Sequences, FiniteSets, TLC

(* ---------------------------------------------------------------------- *)
(* Program constants                                                      *)
(* ---------------------------------------------------------------------- *)
\* rate.NewLimiter(rate.Every(5*time.Second), 4)
EverySeconds == 5
Burst == 4
\* context.WithTimeout(ctx, 30*time.Second)
TimeoutSeconds == 30
\* time.NewTicker(1 * time.Minute)
TickerSeconds == 60

\* one time unit = one refill interval of the limiter
TimeoutU == TimeoutSeconds \div EverySeconds
IntervalU == TickerSeconds \div EverySeconds

(* ---------------------------------------------------------------------- *)
(* Bounds of the model                                                    *)
(* ---------------------------------------------------------------------- *)
\* number of poll cycles (calls of readSensors) a run may start
MaxCycles == 2
\* the same, for the registry that is large enough to exhaust the limiter
MaxRateCycles == 1
\* ticks the goroutines of the goroutine-per-sensor revision may take
MaxTicks == 2

(* ---------------------------------------------------------------------- *)
(* Data                                                                   *)
(* ---------------------------------------------------------------------- *)
\* float64 readings, in tenths (21.5 degrees = 215, 40.0 %rH = 400)
Temperatures == {215, 190}
Humidities == {400}
\* capture timestamps: 0 is the zero time.Time, 1 a real instant
Timestamps == {0, 1}

\* response bodies: a JSON object with the fields of indoorData (Json), or
\* bytes that are not JSON
IndoorData ==
    [Json : {TRUE}, Temperature : Temperatures, Humidity : Humidities,
     Timestamp : Timestamps]

Malformed == [Json |-> FALSE, Temperature |-> 0, Humidity |-> 0, Timestamp |-> 0]

\* the payload of the spec's scenario: 21.5 degrees, 40.0 %rH, real timestamp
OneGoodBody ==
    {[Json |-> TRUE, Temperature |-> 215, Humidity |-> 400, Timestamp |-> 1]}

\* egain.Sensor as the registry is built from the flag: lastReading is the
\* zero time.Time
SensorA == [SensorID |-> "A", Location |-> "kitchen", lastReading |-> 0]
SensorB == [SensorID |-> "B", Location |-> "bath", lastReading |-> 0]

\* small --sensors configurations: none, one and two sensors
Configs == {<<>>, <<SensorA>>, <<SensorA, SensorB>>}

\* a registry with one sensor more than the limiter's burst, so that one
\* poll cycle can use up the bucket
RateNames == <<"S1", "S2", "S3", "S4", "S5", "S6", "S7", "S8">>
RateConfig ==
    [k \in 1..(Burst + 1) |->
        [SensorID |-> RateNames[k], Location |-> "hall", lastReading |-> 0]]

\* --sensors of the goroutine-per-sensor revision (a string slice)
ConfigsV0 == {<<>>, <<"A">>, <<"A", "B">>}

\* poll cycles a run with registry cfg may start
CycleBudget(cfg) == IF Len(cfg) > Burst THEN MaxRateCycles ELSE MaxCycles

\* attribute set of a measurement: sensor.id, sensor.location
KeyOf(data) == <<data.SensorID, data.Location>>
SensorKey(s) == <<s.SensorID, s.Location>>

\* a reading that does not carry the sensor it was fetched for
SensorReadingNoSensor(data, s) ==
    [SensorID |-> "", Location |-> "",
     Temperature |-> data.Temperature, Humidity |-> data.Humidity,
     Timestamp |-> data.Timestamp]

\* SensorReading{indoorData: data, Sensor: *s}
SensorReading(data, s) ==
    [SensorID |-> s.SensorID, Location |-> s.Location,
     Temperature |-> data.Temperature, Humidity |-> data.Humidity,
     Timestamp |-> data.Timestamp]

Min(a, b) == IF a < b THEN a ELSE b

VARIABLES
    sensors,      \* c.sensors: the registry built from the --sensors flag
    upstream,     \* the bodies the sensor API may answer with
    pc,           \* position of main
    cancelled,    \* ctx.Done() is closed (SIGINT/SIGTERM received)
    cycles,       \* calls of readSensors so far
    i,            \* Fetch: index of the sensor being fetched
    r,            \* Fetch: the readings collected so far
    fetchErr,     \* the error Fetch returned
    j,            \* readSensors: index of the reading being published
    temperature,  \* gauge sensor.temperature: attribute set -> last value
    humidity,     \* gauge sensor.humidity: attribute set -> last value
    lastReading,  \* histogram sensor.lastReading.duration: attribute set -> count
    tokens,       \* limiter: tokens available (negative: reserved ahead)
    waitLeft,     \* limiter: time left until the reservation can act
    elapsed,      \* time since fetchSensorData built its 30 s context
    armed,        \* the ticker exists and is not stopped
    tickPhase,    \* time since the ticker's last tick (or since it was armed)
    armedAge,     \* time since the ticker was armed, saturating at one interval
    tickC,        \* a tick is buffered in ticker.C (capacity 1)
    dropped,      \* a tick found ticker.C full since the last receive from it
    attempted,    \* sensors fetchSensorData was called for in this Fetch call
    sent,         \* sensors whose HTTP request was issued in this Fetch call
    succeeded,    \* sensors whose fetchSensorData returned a reading in this call
    lastOk,       \* attribute set -> last successfully decoded reading
    limiterErr,   \* what the last c.limit.Wait(ctx) returned ("sleep": not yet)
    waitAborted,  \* some Wait was aborted by cancellation while it slept
    load,         \* requests sent, less one per time unit passed (never below 0)
    lateStart,    \* the last call of readSensors began after ctx was cancelled
    meters,       \* the instruments (gauges, histogram) have been created
    \* the goroutine-per-sensor revision (part_000)
    sensorIDs,    \* the --sensors flag: a list of sensor ids
    mainV0,       \* position of main
    routines,     \* position of each sensor's goroutine
    registered,   \* the GaugeVecs are created and registered
    temperatureV0, \* GaugeVec indoor_temperature: sensor id -> last value
    humidityV0,   \* GaugeVec indoor_humidity: sensor id -> last value
    tickerV0,     \* "none", "armed", "tick" (a tick is buffered in ticker.C)
    ctxV0,        \* ctx is cancelled
    handler,      \* the signal goroutine: "idle", "shutdown", "done"
    srv,          \* the HTTP server: "new", "listening", "closed"
    ticksTaken,   \* ticks received from ticker.C so far, by any goroutine
    fetched       \* per goroutine: calls of fetchData after the initial one

vars == <<sensors, upstream, pc, cancelled, cycles, i, r, fetchErr, j,
          temperature, humidity, lastReading, tokens, waitLeft, elapsed,
          armed, tickPhase, armedAge, tickC, dropped, attempted, sent,
          succeeded, lastOk,
          limiterErr, waitAborted, load, lateStart, meters, sensorIDs, mainV0, routines, registered,
          temperatureV0, humidityV0, tickerV0, ctxV0, handler, srv,
          ticksTaken, fetched>>

\* the state of the goroutine-per-sensor revision
v0 == <<sensorIDs, mainV0, routines, registered, temperatureV0, humidityV0,
        tickerV0, ctxV0, handler, srv, ticksTaken, fetched>>

\* what the goroutines have done with the ticks
tally == <<ticksTaken, fetched>>

\* the state of the current revision
current == <<sensors, upstream, pc, cancelled, cycles, i, r, fetchErr, j,
             temperature, humidity, lastReading, tokens, waitLeft, elapsed,
             armed, tickPhase, armedAge, tickC, dropped, attempted, sent,
          succeeded, lastOk,
             limiterErr, waitAborted, load, lateStart, meters>>

config == <<sensors, upstream>>
\* what only the start of main sets
fixed == <<sensors, upstream, meters, v0>>
\* history of the limiter's answers
waits == <<limiterErr, waitAborted>>
gauges == <<temperature, humidity, lastReading>>
limiter == <<tokens, waitLeft>>
ticker == <<armed, tickPhase, armedAge, tickC, dropped>>
fetchLocals == <<i, r, fetchErr, attempted, sent, succeeded>>

EmptyMap == <<>>

\* the goroutine-per-sensor revision, before main runs with flag ids
InitV0With(ids, at) ==
    /\ sensorIDs = ids
    /\ mainV0 = at
    /\ routines = <<>>
    /\ registered = FALSE
    /\ temperatureV0 = EmptyMap
    /\ humidityV0 = EmptyMap
    /\ tickerV0 = "none"
    /\ ctxV0 = FALSE
    /\ handler = "none"
    /\ srv = "none"
    /\ ticksTaken = 0
    /\ fetched = [k \in DOMAIN ids |-> 0]

\* the current revision, before main runs with registry cfg
InitWith(cfg, bodies, at) ==
    /\ sensors = cfg
    /\ upstream = bodies
    /\ pc = at
    /\ meters = FALSE
    /\ cancelled = FALSE
    /\ cycles = 0
    /\ i = 1
    /\ r = <<>>
    /\ fetchErr = "nil"
    /\ j = 1
    /\ temperature = EmptyMap
    /\ humidity = EmptyMap
    /\ lastReading = EmptyMap
    /\ tokens = Burst
    /\ waitLeft = 0
    /\ elapsed = 0
    /\ armed = FALSE
    /\ tickPhase = 0
    /\ armedAge = 0
    /\ tickC = FALSE
    /\ dropped = FALSE
    /\ attempted = <<>>
    /\ sent = {}
    /\ succeeded = {}
    /\ lastOk = EmptyMap
    /\ limiterErr = "none"
    /\ waitAborted = FALSE
    /\ lateStart = FALSE
    /\ load = 0

\* the small registries against an API that may answer anything; the large
\* registry against an API that answers the scenario's payload
InitCurrent ==
    /\ \/ \E cfg \in Configs : InitWith(cfg, IndoorData \cup {Malformed}, "main")
       \/ InitWith(RateConfig, OneGoodBody, "main")
    /\ InitV0With(<<>>, "off")

\* the goroutine-per-sensor revision with no, one or two sensor ids
InitV0 ==
    /\ InitWith(<<>>, IndoorData \cup {Malformed}, "off")
    /\ \E ids \in ConfigsV0 : InitV0With(ids, "main")

\* a run of either revision
Init == InitCurrent \/ InitV0

(* ---------------------------------------------------------------------- *)
(* main                                                                   *)
(* ---------------------------------------------------------------------- *)

\* main without the empty-configuration check
MainUnchecked ==
    /\ pc = "main"
    /\ pc' = "newticker"
    /\ meters' = TRUE
    /\ UNCHANGED <<config, v0, load, cancelled, cycles, fetchLocals, j, gauges, limiter,
                   elapsed, ticker, lastOk, waits, lateStart>>

\* if len(sensorIDs) == 0 { ...; return }, else meters, registry and fetcher
MainConfigured ==
    /\ pc = "main"
    /\ pc' = IF Len(sensors) = 0 THEN "stopped" ELSE "newticker"
    /\ meters' = (Len(sensors) # 0)
    /\ UNCHANGED <<config, v0, load, cancelled, cycles, fetchLocals, j, gauges, limiter,
                   elapsed, ticker, lastOk, waits, lateStart>>

\* ticker := time.NewTicker(1 * time.Minute)
NewTicker ==
    /\ pc = "newticker"
    /\ armed' = TRUE
    /\ tickPhase' = 0
    /\ armedAge' = 0
    /\ tickC' = FALSE
    /\ dropped' = FALSE
    /\ pc' = "first"
    /\ UNCHANGED <<fixed, load, cancelled, cycles, fetchLocals, j, gauges, limiter,
                   elapsed, lastOk, waits, lateStart>>

\* entry of readSensors and of client.Fetch
EnterReadSensors ==
    /\ cycles' = cycles + 1
    /\ lateStart' = cancelled
    /\ i' = 1
    /\ r' = <<>>
    /\ fetchErr' = "nil"
    /\ attempted' = <<>>
    /\ sent' = {}
    /\ succeeded' = {}
    /\ pc' = "Fetch"

\* readSensors() before the loop
FirstCycle ==
    /\ pc = "first"
    /\ EnterReadSensors
    /\ UNCHANGED <<fixed, load, cancelled, j, gauges, limiter, elapsed, ticker, lastOk,
                   waits>>

\* a loop that polls without waiting for a tick
SelectWithoutTick ==
    /\ pc = "select"
    /\ cycles < CycleBudget(sensors)
    /\ tickC' = FALSE
    /\ dropped' = FALSE
    /\ EnterReadSensors
    /\ UNCHANGED <<fixed, load, cancelled, j, gauges, limiter, elapsed,
                   armed, tickPhase, armedAge, lastOk, waits>>

\* a loop whose receive leaves the tick in ticker.C
SelectKeepsTick ==
    /\ pc = "select"
    /\ tickC
    /\ cycles < CycleBudget(sensors)
    /\ EnterReadSensors
    /\ UNCHANGED <<fixed, load, cancelled, j, gauges, limiter, elapsed, ticker, lastOk,
                   waits>>

\* select: case <-ticker.C: readSensors()
SelectTick ==
    /\ pc = "select"
    /\ tickC
    /\ cycles < CycleBudget(sensors)
    /\ tickC' = FALSE
    /\ dropped' = FALSE
    /\ EnterReadSensors
    /\ UNCHANGED <<fixed, load, cancelled, j, gauges, limiter, elapsed,
                   armed, tickPhase, armedAge, lastOk, waits>>

\* a select without the ctx.Done() case: the loop never returns
SelectWithoutDone ==
    /\ pc = "select"
    /\ cancelled
    /\ UNCHANGED vars

\* select: case <-ctx.Done(): return (the deferred ticker.Stop() runs)
SelectDone ==
    /\ pc = "select"
    /\ cancelled
    /\ pc' = "stopped"
    /\ armed' = FALSE
    /\ UNCHANGED <<fixed, load, cancelled, cycles, fetchLocals, j, gauges, limiter,
                   elapsed, tickPhase, armedAge, tickC, dropped, lastOk, waits,
                   lateStart>>

\* SIGINT or SIGTERM: signal.NotifyContext cancels ctx
Cancel ==
    /\ pc \notin {"off", "stopped"}
    /\ ~cancelled
    /\ cancelled' = TRUE
    /\ UNCHANGED <<fixed, load, pc, cycles, fetchLocals, j, gauges, limiter,
                   elapsed, ticker, lastOk, waits, lateStart>>

(* ---------------------------------------------------------------------- *)
(* rate.Limiter (golang.org/x/time/rate), as Client.fetchSensorData uses  *)
(* it: c.limit.Wait(ctx) with the fetch's 30 s context                    *)
(* ---------------------------------------------------------------------- *)

\* the delay of a limiter refilled once a minute instead of every 5 s
WaitDelayMinute(tok) == IF tok >= 1 THEN 0 ELSE (1 - tok) * IntervalU

\* the delay of a limiter that never makes a caller wait
WaitDelayNone(tok) == 0

\* time a new reservation of one token has to wait with tok tokens left
WaitDelay(tok) == IF tok >= 1 THEN 0 ELSE 1 - tok

\* a Wait that does not look at ctx before it reserves a token
WaitEntryNoCtxCheck(tok, ctxDone, waitLimit) ==
    IF WaitDelay(tok) > waitLimit THEN "deadline"
    ELSE IF WaitDelay(tok) = 0 THEN "nil"
    ELSE "sleep"

\* what Wait does on entry: "canceled" if ctx is done, "deadline" if the
\* reservation would act after the context's deadline (no token is taken),
\* "nil" if a token is there, "sleep" if it has to wait for one
WaitEntry(tok, ctxDone, waitLimit) ==
    IF ctxDone THEN "canceled"
    ELSE IF WaitDelay(tok) > waitLimit THEN "deadline"
    ELSE IF WaitDelay(tok) = 0 THEN "nil"
    ELSE "sleep"

\* Reservation.Cancel: the token goes back to the bucket
RestoreToken(tok) == Min(Burst, tok + 1)

\* the bucket refills by one token per time unit, up to the burst
Refill(tok) == Min(Burst, tok + 1)

(* ---------------------------------------------------------------------- *)
(* Client.Fetch and Client.fetchSensorData                                *)
(* ---------------------------------------------------------------------- *)

\* Fetch giving up at the first failing sensor (break instead of continue)
AbortFetch ==
    /\ i' = Len(sensors) + 1
    /\ pc' = "Fetch"
    /\ UNCHANGED <<r, fetchErr>>

\* Fetch: if err != nil { log; continue }
SkipSensor ==
    /\ i' = i + 1
    /\ pc' = "Fetch"
    /\ UNCHANGED <<r, fetchErr>>

\* fetchSensorData returns (deferred cancel() of the 30 s context)
LeaveFetchSensorData ==
    /\ elapsed' = 0
    /\ waitLeft' = 0

\* Fetch calls fetchSensorData for the next sensor: the 30 s context, the
\* request, and the entry of c.limit.Wait(ctx)
FetchSensor ==
    /\ pc = "Fetch"
    /\ i <= Len(sensors)
    /\ attempted' = Append(attempted, sensors[i].SensorID)
    /\ limiterErr' = WaitEntry(tokens, cancelled, TimeoutU)
    /\ UNCHANGED waitAborted
    /\ CASE WaitEntry(tokens, cancelled, TimeoutU) = "nil" ->
              /\ tokens' = tokens - 1
              /\ pc' = "Do"
              /\ sent' = sent \cup {i}
              /\ load' = load + 1
              /\ elapsed' = 0
              /\ UNCHANGED <<i, r, fetchErr, waitLeft>>
         [] WaitEntry(tokens, cancelled, TimeoutU) = "sleep" ->
              /\ tokens' = tokens - 1
              /\ waitLeft' = WaitDelay(tokens)
              /\ pc' = "Wait"
              /\ elapsed' = 0
              /\ UNCHANGED <<i, r, fetchErr, sent, load>>
         [] OTHER ->
              /\ SkipSensor
              /\ LeaveFetchSensorData
              /\ UNCHANGED <<tokens, sent, load>>
    /\ UNCHANGED <<fixed, succeeded, cancelled, cycles, j, gauges, ticker, lastOk, lateStart>>

\* Wait: the reservation's timer fires, the request is sent (c.client.Do)
WaitWake ==
    /\ pc = "Wait"
    /\ waitLeft = 0
    /\ limiterErr' = "nil after sleep"
    /\ UNCHANGED waitAborted
    /\ pc' = "Do"
    /\ sent' = sent \cup {i}
    /\ load' = load + 1
    /\ UNCHANGED <<fixed, succeeded, cancelled, cycles, i, r, fetchErr, j, gauges, limiter,
                   elapsed, ticker, attempted, lastOk, lateStart>>

\* a cancelled Wait that makes Fetch give up and drop what it collected
WaitCancelledDropsAll ==
    /\ pc = "Wait"
    /\ cancelled
    /\ limiterErr' = "canceled"
    /\ waitAborted' = TRUE
    /\ tokens' = RestoreToken(tokens)
    /\ i' = Len(sensors) + 1
    /\ r' = <<>>
    /\ pc' = "Fetch"
    /\ LeaveFetchSensorData
    /\ UNCHANGED <<fixed, load, cancelled, cycles, fetchErr, j, gauges, ticker, attempted,
                   sent, succeeded, lastOk, lateStart>>

\* Wait: ctx is done first: r.Cancel(), return ctx.Err()
WaitCancelled ==
    /\ pc = "Wait"
    /\ cancelled
    /\ limiterErr' = "canceled"
    /\ waitAborted' = TRUE
    /\ tokens' = RestoreToken(tokens)
    /\ SkipSensor
    /\ LeaveFetchSensorData
    /\ UNCHANGED <<fixed, load, cancelled, cycles, j, gauges, ticker, attempted, sent, succeeded,
                   lastOk, lateStart>>

\* json.NewDecoder(resp.Body).Decode(&data) on the body received
DecodeOk(body) == body.Json

\* c.client.Do returns a response (any status code); the body is decoded
DoRespond ==
    /\ pc = "Do"
    /\ \E body \in upstream :
         IF DecodeOk(body)
         THEN /\ r' = Append(r, SensorReading(body, sensors[i]))
              /\ lastOk' = (SensorKey(sensors[i]) :> SensorReading(body, sensors[i])) @@ lastOk
              /\ succeeded' = succeeded \cup {i}
              /\ i' = i + 1
              /\ pc' = "Fetch"
              /\ UNCHANGED fetchErr
         ELSE /\ SkipSensor
              /\ UNCHANGED <<lastOk, succeeded>>
    /\ LeaveFetchSensorData
    /\ UNCHANGED <<fixed, load, cancelled, cycles, j, gauges, tokens, ticker, attempted,
                   sent, waits, lateStart>>

\* c.client.Do returns an error: fetchSensorData logs and returns it
DoFail ==
    /\ SkipSensor
    /\ LeaveFetchSensorData
    /\ UNCHANGED <<fixed, load, cancelled, cycles, j, gauges, tokens, ticker, attempted,
                   sent, succeeded, lastOk, waits, lateStart>>

\* transport error
DoError == pc = "Do" /\ DoFail

\* context deadline exceeded
DoTimeout == pc = "Do" /\ elapsed = TimeoutU /\ DoFail

\* context canceled
DoCancelled == pc = "Do" /\ cancelled /\ DoFail

\* Fetch: return r, nil; readSensors: if err != nil { log; return }
FetchReturn ==
    /\ pc = "Fetch"
    /\ i > Len(sensors)
    /\ fetchErr' = "nil"
    /\ j' = 1
    /\ pc' = IF fetchErr' # "nil" THEN "select" ELSE "publish"
    /\ UNCHANGED <<fixed, load, cancelled, cycles, i, r, gauges, limiter, elapsed, ticker,
                   attempted, sent, succeeded, lastOk, waits, lateStart>>

(* ---------------------------------------------------------------------- *)
(* readSensors: the publication loop                                      *)
(* ---------------------------------------------------------------------- *)

\* a Record that ignores the attribute set: every series takes the value
GaugeRecordAll(g, key, v) == [k \in DOMAIN g \cup {key} |-> v]

\* Float64Gauge.Record(ctx, v, attrs): last value per attribute set
GaugeRecord(g, key, v) == (key :> v) @@ g

\* Float64Histogram.Record(ctx, v, attrs): one more observation
HistogramRecord(h, key) ==
    (key :> (IF key \in DOMAIN h THEN h[key] + 1 ELSE 1)) @@ h

\* temperature.Record(ctx, data.Temperature, ...)
TemperatureRecorded(data) == data.Temperature

\* humidity.Record(ctx, data.Temperature, ...)
HumidityRecorded(data) == data.Temperature

\* for _, data := range sensorReadings { ... }: one iteration
Publish ==
    /\ pc = "publish"
    /\ j <= Len(r)
    /\ temperature' = GaugeRecord(temperature, KeyOf(r[j]), TemperatureRecorded(r[j]))
    /\ humidity' = GaugeRecord(humidity, KeyOf(r[j]), HumidityRecorded(r[j]))
    /\ lastReading' = HistogramRecord(lastReading, KeyOf(r[j]))
    /\ j' = j + 1
    /\ UNCHANGED <<fixed, load, pc, cancelled, cycles, fetchLocals, limiter, elapsed,
                   ticker, lastOk, waits, lateStart>>

\* readSensors returns to the select loop; its locals are gone
ReadSensorsReturn ==
    /\ pc = "publish"
    /\ j > Len(r)
    /\ pc' = "select"
    /\ i' = 1
    /\ r' = <<>>
    /\ j' = 1
    /\ attempted' = <<>>
    /\ sent' = {}
    /\ succeeded' = {}
    /\ UNCHANGED <<fixed, load, cancelled, cycles, fetchErr, gauges, limiter, elapsed,
                   ticker, lastOk, waits, lateStart>>

(* ---------------------------------------------------------------------- *)
(* Time                                                                   *)
(* ---------------------------------------------------------------------- *)

\* One time unit passes while main is blocked: in the limiter's wait, in the
\* HTTP round trip (at most until the 30 s deadline) or in the select.  A
\* cancelled context and a buffered tick are observed without delay.
Advance ==
    /\ pc \in {"Wait", "Do", "select"}
    /\ ~cancelled
    /\ pc = "Wait" => waitLeft > 0
    /\ pc = "Do" => elapsed < TimeoutU
    /\ pc = "select" => ~tickC
    /\ tokens' = Refill(tokens)
    /\ load' = IF load > 0 THEN load - 1 ELSE 0
    /\ waitLeft' = IF waitLeft > 0 THEN waitLeft - 1 ELSE 0
    /\ elapsed' = IF pc \in {"Wait", "Do"} THEN elapsed + 1 ELSE elapsed
    /\ armedAge' = Min(IntervalU, armedAge + 1)
    /\ IF armed /\ tickPhase + 1 = IntervalU
       THEN tickPhase' = 0 /\ tickC' = TRUE /\ dropped' = (dropped \/ tickC)
       ELSE tickPhase' = tickPhase + 1 /\ UNCHANGED <<tickC, dropped>>
    /\ UNCHANGED <<fixed, pc, cancelled, cycles, fetchLocals, j, gauges, armed,
                   lastOk, waits, lateStart>>

(* ---------------------------------------------------------------------- *)
(* The goroutine-per-sensor revision (part_000)                           *)
(* ---------------------------------------------------------------------- *)

\* the process is running: main has neither returned nor been killed
RunningV0 == mainV0 \in {"serve", "wgwait"}

Indices == DOMAIN sensorIDs

\* main up to srv.ListenAndServe(): the empty-configuration check, the
\* GaugeVecs, the signal goroutine, the ticker, one goroutine per sensor id
MainV0 ==
    /\ mainV0 = "main"
    /\ IF Len(sensorIDs) = 0
       THEN /\ mainV0' = "exit"
            /\ UNCHANGED <<routines, registered, tickerV0, handler, srv>>
       ELSE /\ mainV0' = "serve"
            /\ registered' = TRUE
            /\ handler' = "idle"
            /\ tickerV0' = "armed"
            /\ srv' = "new"
            /\ routines' = [k \in Indices |-> "initial"]
    /\ UNCHANGED <<tally, sensorIDs, temperatureV0, humidityV0, ctxV0, current>>

\* temperature.WithLabelValues(sensorID).Set(...), humidity likewise
SetGaugesV0(id, data) ==
    /\ temperatureV0' = (id :> data.Temperature) @@ temperatureV0
    /\ humidityV0' = (id :> data.Humidity) @@ humidityV0

\* the goroutine's first fetchData returns.  On an error data is nil and
\* the following data.Temperature panics: the process dies.
InitialFetch(k) ==
    /\ RunningV0
    /\ routines[k] = "initial"
    /\ \E ok \in BOOLEAN, body \in IndoorData \cup {Malformed} :
         IF ok /\ DecodeOk(body)
         THEN /\ SetGaugesV0(sensorIDs[k], body)
              /\ routines' = [routines EXCEPT ![k] = "select"]
              /\ UNCHANGED mainV0
         ELSE /\ mainV0' = "panic"
              /\ UNCHANGED <<routines, temperatureV0, humidityV0>>
    /\ UNCHANGED <<tally, sensorIDs, registered, tickerV0, ctxV0, handler, srv, current>>

\* select: case <-ticker.C: the goroutine takes the tick and calls fetchData
TakeTick(k) ==
    /\ RunningV0
    /\ routines[k] = "select"
    /\ tickerV0 = "tick"
    /\ ticksTaken < MaxTicks
    /\ tickerV0' = "armed"
    /\ routines' = [routines EXCEPT ![k] = "fetching"]
    /\ ticksTaken' = ticksTaken + 1
    /\ fetched' = [fetched EXCEPT ![k] = @ + 1]
    /\ UNCHANGED <<sensorIDs, mainV0, registered, temperatureV0, humidityV0, ctxV0,
                   handler, srv, current>>

\* fetchData after a tick returns: the gauges are set, or the error is
\* logged and the loop continues
TickFetch(k) ==
    /\ RunningV0
    /\ routines[k] = "fetching"
    /\ \E ok \in BOOLEAN, body \in IndoorData \cup {Malformed} :
         IF ok /\ DecodeOk(body)
         THEN SetGaugesV0(sensorIDs[k], body)
         ELSE UNCHANGED <<temperatureV0, humidityV0>>
    /\ routines' = [routines EXCEPT ![k] = "select"]
    /\ UNCHANGED <<tally, sensorIDs, mainV0, registered, tickerV0, ctxV0, handler, srv,
                   current>>

\* select: case <-ctx.Done(): return (wg.Done())
RoutineDone(k) ==
    /\ RunningV0
    /\ routines[k] = "select"
    /\ ctxV0
    /\ routines' = [routines EXCEPT ![k] = "returned"]
    /\ UNCHANGED <<tally, sensorIDs, mainV0, registered, temperatureV0, humidityV0,
                   tickerV0, ctxV0, handler, srv, current>>

\* the shared ticker fires; a tick nobody has taken yet is not doubled
TickV0 ==
    /\ RunningV0
    /\ tickerV0 = "armed"
    /\ tickerV0' = "tick"
    /\ UNCHANGED <<tally, sensorIDs, mainV0, routines, registered, temperatureV0,
                   humidityV0, ctxV0, handler, srv, current>>

\* srv.ListenAndServe() binds :8080 and serves
Listen ==
    /\ mainV0 = "serve"
    /\ srv = "new"
    /\ srv' = "listening"
    /\ UNCHANGED <<tally, sensorIDs, mainV0, routines, registered, temperatureV0,
                   humidityV0, tickerV0, ctxV0, handler, current>>

\* srv.ListenAndServe() cannot bind: the error is logged, cancel()
ListenFails ==
    /\ mainV0 = "serve"
    /\ srv = "new"
    /\ srv' = "closed"
    /\ ctxV0' = TRUE
    /\ mainV0' = "wgwait"
    /\ UNCHANGED <<tally, sensorIDs, routines, registered, temperatureV0, humidityV0,
                   tickerV0, handler, current>>

\* the signal goroutine receives SIGINT or SIGTERM: cancel()
Signal ==
    /\ RunningV0
    /\ handler = "idle"
    /\ handler' = "shutdown"
    /\ ctxV0' = TRUE
    /\ UNCHANGED <<tally, sensorIDs, mainV0, routines, registered, temperatureV0,
                   humidityV0, tickerV0, srv, current>>

\* srv.Shutdown(ctx) with the cancelled ctx: the listeners are closed; with
\* no connection in use it returns nil, otherwise ctx.Err() and
\* logger.Fatal ends the process
Shutdown ==
    /\ RunningV0
    /\ handler = "shutdown"
    /\ handler' = "done"
    /\ srv' = "closed"
    /\ \E busy \in BOOLEAN :
         mainV0' = IF busy /\ srv = "listening" THEN "fatal" ELSE mainV0
    /\ UNCHANGED <<tally, sensorIDs, routines, registered, temperatureV0, humidityV0,
                   tickerV0, ctxV0, current>>

\* srv.ListenAndServe() returns http.ErrServerClosed; main goes on to wg.Wait()
ServeReturns ==
    /\ mainV0 = "serve"
    /\ srv = "closed"
    /\ mainV0' = "wgwait"
    /\ UNCHANGED <<tally, sensorIDs, routines, registered, temperatureV0, humidityV0,
                   tickerV0, ctxV0, handler, srv, current>>

\* wg.Wait() returns when every goroutine has returned: main returns
WaitGroupDone ==
    /\ mainV0 = "wgwait"
    /\ \A k \in Indices : routines[k] = "returned"
    /\ mainV0' = "exit"
    /\ tickerV0' = "none"
    /\ UNCHANGED <<tally, sensorIDs, routines, registered, temperatureV0, humidityV0,
                   ctxV0, handler, srv, current>>

Next ==
    \/ MainConfigured
    \/ NewTicker
    \/ FirstCycle
    \/ SelectTick
    \/ SelectDone
    \/ Cancel
    \/ FetchSensor
    \/ WaitWake
    \/ WaitCancelled
    \/ DoRespond
    \/ DoError
    \/ DoTimeout
    \/ DoCancelled
    \/ FetchReturn
    \/ Publish
    \/ ReadSensorsReturn
    \/ Advance
    \/ MainV0
    \/ \E k \in Indices : InitialFetch(k)
    \/ \E k \in Indices : TakeTick(k)
    \/ \E k \in Indices : TickFetch(k)
    \/ \E k \in Indices : RoutineDone(k)
    \/ TickV0
    \/ Listen
    \/ ListenFails
    \/ Signal
    \/ Shutdown
    \/ ServeReturns
    \/ WaitGroupDone

Spec == Init /\ [][Next]_vars

\* the steps of the main goroutine of the current revision: a runnable
\* goroutine is scheduled, and a round trip ends (at its deadline at the latest)
MainStep ==
    \/ MainConfigured \/ NewTicker \/ FirstCycle \/ SelectTick \/ SelectDone
    \/ FetchSensor \/ WaitWake \/ WaitCancelled
    \/ DoRespond \/ DoError \/ DoTimeout \/ DoCancelled
    \/ FetchReturn \/ Publish \/ ReadSensorsReturn

SpecFair == Init /\ [][Next]_vars /\ WF_vars(MainStep)

(* ---------------------------------------------------------------------- *)
(* Properties                                                             *)
(* ---------------------------------------------------------------------- *)

\* main is inside client.Fetch
InFetch == pc \in {"Fetch", "Wait", "Do"}

\* the step is one iteration of the publication loop, for the reading r[j]
PublishStep == pc = "publish" /\ j <= Len(r) /\ j' = j + 1

\* the series of key is the same before and after the step
SameSeries(g, h, key) ==
    /\ key \in DOMAIN g <=> key \in DOMAIN h
    /\ key \in DOMAIN g => g[key] = h[key]

AllKeys ==
    DOMAIN temperature \cup DOMAIN humidity \cup DOMAIN lastReading \cup DOMAIN lastOk

\* C1: a decoded reading whose capture timestamp is the zero value never
\* changes the gauges or the staleness histogram.
C1_ZeroTimestampNeverPublished ==
    [][(PublishStep /\ r[j].Timestamp = 0) => UNCHANGED gauges]_vars

\* C2: publishing a reading sets the temperature gauge of its (id, location)
\* to the reading's temperature and the humidity gauge of that key to the
\* reading's humidity.
C2_PublishSetsBothGauges ==
    [][PublishStep =>
         /\ KeyOf(r[j]) \in DOMAIN temperature' \cap DOMAIN humidity'
         /\ temperature'[KeyOf(r[j])] = r[j].Temperature
         /\ humidity'[KeyOf(r[j])] = r[j].Humidity]_vars

\* C3: a step changes the series of a key only if it publishes a reading of
\* that key's sensor: publishing for one sensor leaves the temperature,
\* humidity and staleness series of every other key as they were.
C3_PublishFrame ==
    [][\A key \in AllKeys \cup DOMAIN temperature' \cup DOMAIN humidity'
                          \cup DOMAIN lastReading' :
         (~ /\ SameSeries(temperature, temperature', key)
            /\ SameSeries(humidity, humidity', key)
            /\ SameSeries(lastReading, lastReading', key))
         => PublishStep /\ key = KeyOf(r[j])]_vars

\* C3, witnessed: a reading has just been published while another key holds
\* a different temperature
C3_Witness ==
    /\ pc = "publish"
    /\ j > 1
    /\ \E key \in DOMAIN temperature :
         /\ key # KeyOf(r[j - 1])
         /\ temperature[key] # temperature[KeyOf(r[j - 1])]

\* the ids of the registry, in registry order
RegistryIds == [k \in 1..Len(sensors) |-> sensors[k].SensorID]

\* C4: when Fetch returns, fetchSensorData has been called exactly once for
\* every sensor of the registry, whatever failed, and the error is nil.
C4_FetchAttemptsAll ==
    [][(InFetch /\ ~InFetch') =>
         /\ attempted' = RegistryIds
         /\ fetchErr' = "nil"
         /\ pc' = "publish"]_vars

\* C4, witnessed: Fetch has returned the reading of the second sensor after
\* the first sensor's fetch failed
C4_Witness ==
    /\ pc = "publish"
    /\ Len(sensors) = 2
    /\ Len(r) = 1
    /\ r[1].SensorID = sensors[2].SensorID
    /\ attempted = RegistryIds

\* C5: between poll cycles every sensor's gauge pair is unset (never read
\* successfully) or holds the temperature and humidity of the sensor's most
\* recent successfully fetched and decoded reading.
C5_GaugesHoldLastReading ==
    pc \in {"select", "stopped"} =>
       \A key \in AllKeys :
          /\ key \in DOMAIN lastOk
          /\ key \in DOMAIN temperature /\ temperature[key] = lastOk[key].Temperature
          /\ key \in DOMAIN humidity /\ humidity[key] = lastOk[key].Humidity

\* C6: the limiter never rejects a call: Wait fails only when the context
\* is cancelled, a reservation that has to wait fits into the fetch's 30 s
\* deadline, and a call that was delayed issues its HTTP request when its
\* token is there.
C6_LimiterDelaysNeverRejects ==
    /\ [](/\ limiterErr # "deadline"
          /\ limiterErr = "canceled" => cancelled
          /\ pc = "Wait" => waitLeft <= TimeoutU - elapsed)
    /\ [][(pc = "Wait" /\ ~cancelled /\ pc' # "Wait") =>
            /\ waitLeft = 0
            /\ pc' = "Do"
            /\ i \in sent' \ sent
            /\ limiterErr' = "nil after sleep"]_vars

\* C6, witnessed: the call after the burst was delayed and has now issued
\* its request, with no cancellation
C6_Witness ==
    /\ pc = "Do"
    /\ limiterErr = "nil after sleep"
    /\ i = Burst + 1
    /\ ~cancelled

\* C7 as stated: the periodic timer is armed only after the first poll cycle
\* has been triggered.
C7_TimerArmedAfterFirstCycle == armed => cycles >= 1

\* C7, amended: the timer is armed first; the first poll cycle is then
\* triggered at once, with no time passing and no tick awaited; every later
\* cycle is started by taking a tick out of ticker.C, hence not before one
\* full interval has passed since the timer was armed.
C7_FirstCycleThenTicks ==
    /\ [](/\ cycles >= 1 => (armed \/ pc = "stopped")
          /\ pc = "first" => (armed /\ armedAge = 0 /\ cycles = 0 /\ ~tickC))
    /\ [][cycles' # cycles =>
            /\ cycles' = cycles + 1
            /\ pc' = "Fetch"
            /\ \/ cycles = 0 /\ pc = "first" /\ armedAge = 0
               \/ /\ cycles >= 1
                  /\ pc = "select"
                  /\ tickC /\ ~tickC'
                  /\ armedAge = IntervalU]_vars

\* C7, witnessed: the second poll cycle has been started
C7_Witness == cycles = 2 /\ pc = "Fetch" /\ i = 1 /\ armedAge = IntervalU

\* C8: once ctx is cancelled the select loop of main never starts a poll
\* cycle, also when a tick is buffered at that moment.
C8_NoCycleAfterCancel ==
    [][(pc = "select" /\ cancelled) => pc' # "Fetch"]_vars

\* the gauges and the histogram hold the temperature of the last decoded
\* reading of every sensor that was read successfully
AllReadingsPublished ==
    \A key \in DOMAIN lastOk :
       /\ key \in DOMAIN temperature
       /\ temperature[key] = lastOk[key].Temperature
       /\ key \in DOMAIN humidity
       /\ key \in DOMAIN lastReading

\* C9: a fetch whose limiter wait is interrupted by cancellation fails with
\* the cancellation error without issuing its HTTP request and without
\* losing the readings Fetch has collected; when main has stopped, every
\* reading collected before the cancellation has been published.
C9_CancelledWaitKeepsReadings ==
    /\ [][(pc = "Wait" /\ cancelled /\ waitLeft > 0) =>
            /\ pc' = "Fetch"
            /\ i' = i + 1
            /\ sent' = sent
            /\ r' = r
            /\ limiterErr' = "canceled"]_vars
    /\ []((waitAborted /\ pc = "stopped") => AllReadingsPublished)

\* C9, witnessed: main has stopped after a wait was interrupted, and the
\* readings of the sensors before it are in the gauges
C9_Witness ==
    /\ pc = "stopped"
    /\ waitAborted
    /\ Cardinality(DOMAIN lastOk) = Burst
    /\ DOMAIN temperature = DOMAIN lastOk

\* C10: with an empty sensor configuration neither revision starts polling:
\* main returns at once, no instrument is created, no ticker armed, no
\* fetch attempted and no goroutine started.
C10_EmptyConfigNoPolling ==
    /\ (pc # "off" /\ Len(sensors) = 0) =>
          /\ pc \in {"main", "stopped"}
          /\ ~meters /\ ~armed
          /\ cycles = 0 /\ attempted = <<>> /\ sent = {}
          /\ temperature = EmptyMap /\ humidity = EmptyMap /\ lastReading = EmptyMap
    /\ (mainV0 # "off" /\ Len(sensorIDs) = 0) =>
          /\ mainV0 \in {"main", "exit"}
          /\ ~registered /\ tickerV0 = "none"
          /\ routines = <<>> /\ handler = "none" /\ srv = "none"
          /\ temperatureV0 = EmptyMap /\ humidityV0 = EmptyMap

\* C10, witnessed: main of the current revision has returned on the empty
\* configuration
C10_Witness == pc = "stopped" /\ Len(sensors) = 0 /\ ~meters

(* ---------------------------------------------------------------------- *)
(* Properties of the goroutine-per-sensor revision                        *)
(* ---------------------------------------------------------------------- *)

\* C11: after the cancellation the process ends (main returns, or
\* logger.Fatal exits) only when every sensor goroutine has returned.
C11_ExitWaitsForRoutines ==
    (ctxV0 /\ mainV0 \in {"exit", "fatal"}) =>
       \A k \in Indices : routines[k] = "returned"

\* C12: no failed fetch, initial or after a tick, terminates the process.
C12_FetchFailureContained == mainV0 # "panic"

\* C13: each tick of the shared ticker is one fetch for every sensor: when
\* no fetch is in progress, every goroutine has fetched once per tick taken
\* from ticker.C.
C13_EveryTickFetchesEverySensor ==
    (mainV0 = "serve" /\ \A k \in Indices : routines[k] = "select") =>
       \A k \in Indices : fetched[k] = ticksTaken

(* ---------------------------------------------------------------------- *)
(* Further properties of the current revision                             *)
(* ---------------------------------------------------------------------- *)

\* a poll cycle is in flight: readSensors has been entered and not left
InCycle == pc \in {"Fetch", "Wait", "Do", "publish"}

\* the ticker fires in this step
TickFires == armed /\ tickPhase' = 0 /\ tickPhase # 0

\* C14: poll cycles never overlap and at most one fetch is in flight: a
\* cycle starts only when none is in flight, the request in flight is the
\* one of the sensor Fetch stands at and all other requests sent are of
\* earlier sensors.  A tick that fires during a cycle starts nothing: it is
\* buffered (at most one, a further one is dropped), the cycle goes on, and
\* the buffered tick starts the next cycle from the select, before any time
\* passes there, and is consumed by that start.
C14_CyclesNeverOverlap ==
    /\ [](pc = "Do" => i \in sent /\ \A k \in sent : k <= i)
    /\ [](pc = "Wait" => i \notin sent /\ \A k \in sent : k < i)
    /\ [](dropped => tickC)
    /\ [][/\ cycles' # cycles =>
               /\ ~InCycle /\ pc' = "Fetch" /\ cycles' = cycles + 1
               /\ pc = "select" => tickC /\ ~tickC' /\ ~dropped'
          /\ (InCycle /\ TickFires) =>
               /\ pc' = pc /\ cycles' = cycles /\ tickC'
               /\ UNCHANGED <<i, r, j, sent, attempted>>
          /\ (pc = "select" /\ tickC /\ ~cancelled) =>
               (cycles' = cycles + 1 \/ cancelled' \/ cycles = CycleBudget(sensors))
         ]_vars

\* a second tick fired during a cycle that already had one buffered
C14_Witness == pc = "Do" /\ tickC /\ dropped /\ cycles = 1 /\ ~cancelled

\* C15: under fair scheduling a cancelled scheduler reaches Stopped, and
\* once it is Stopped there is no further cycle, fetch or gauge update.
C15_CancelLeadsToStopped ==
    /\ cancelled ~> pc = "stopped"
    /\ [][pc = "stopped" =>
            /\ pc' = "stopped"
            /\ UNCHANGED <<cycles, attempted, sent, r, gauges, tokens>>]_vars

\* stopped by a cancellation that came while a request was in flight
C15_Witness ==
    /\ pc = "stopped" /\ cancelled /\ cycles >= 1
    /\ limiterErr \in {"nil", "nil after sleep"} /\ ~lateStart

\* C16: every request is sent after a wait at the one shared limiter that
\* returned nil, and in any window of T seconds at most
\* Burst + T / EverySeconds requests are sent: the number of requests sent,
\* less one per 5 s passed and never counted below zero, stays within Burst.
C16_RequestRateBounded ==
    /\ load <= Burst
    /\ pc = "Do" => i \in sent /\ limiterErr \in {"nil", "nil after sleep"}

\* the burst is used up, and the fifth request went out one interval later
C16_Witness ==
    /\ pc = "Do" /\ i = Burst + 1 /\ load = Burst
    /\ limiterErr = "nil after sleep" /\ Cardinality(sent) = Burst + 1

\* C17: when Fetch has returned, the registry entry of every sensor with a
\* valid reading in the result carries that reading's timestamp as its
\* lastReading.
C17_RegistryLastReadingUpdated ==
    pc = "publish" =>
       \A n \in 1..Len(r) : \A k \in 1..Len(sensors) :
          (r[n].Timestamp # 0 /\ sensors[k].SensorID = r[n].SensorID) =>
             sensors[k].lastReading = r[n].Timestamp

\* C18 (goroutine-per-sensor revision): once ctx is cancelled no fetch sets
\* a gauge any more and no goroutine begins another fetch.
C18_CancelStopsFetches ==
    [][ctxV0 =>
          /\ temperatureV0' = temperatureV0
          /\ humidityV0' = humidityV0
          /\ \A k \in Indices :
                routines'[k] = "fetching" => routines[k] = "fetching"]_vars

\* fetchSensorData is called in this step
FetchSensorDataCalled == Len(attempted') = Len(attempted) + 1

\* C19: a fetchSensorData call made when ctx is already cancelled ends at
\* the limiter's Wait with the context's error: no request is sent, no token
\* is taken, no reading is added.  A cycle that began after the cancellation
\* therefore sends no request, returns no reading and leaves the gauges as
\* they were.
C19_LateFetchFailsAtLimiter ==
    /\ []((lateStart /\ InCycle) =>
             sent = {} /\ r = <<>> /\ pc \notin {"Wait", "Do"})
    /\ [][/\ (cancelled /\ FetchSensorDataCalled) =>
               /\ pc' = "Fetch" /\ i' = i + 1
               /\ limiterErr' = "canceled"
               /\ UNCHANGED <<tokens, load, sent, r>>
          /\ (lateStart /\ InCycle) => UNCHANGED <<gauges, tokens, load, lastOk>>
         ]_vars

\* a cycle that began after the cancellation has called fetchSensorData for
\* both sensors and returned from Fetch
C19_Witness ==
    /\ lateStart /\ pc = "publish" /\ Len(sensors) = 2
    /\ attempted = RegistryIds /\ limiterErr = "canceled" /\ tokens = Burst

\* the n-th smallest registry index in S
Nth(S, n) == CHOOSE k \in S : Cardinality({m \in S : m < k}) = n - 1

\* C20: the list Fetch builds and returns holds one reading for each sensor
\* whose fetch succeeded, in registry order, each with the id and location
\* of its own sensor, and no reading for any other sensor; the registry is
\* never modified.
C20_ReadingsMatchSucceeded ==
    /\ [](/\ Len(r) = Cardinality(succeeded)
          /\ succeeded \subseteq sent
          /\ \A n \in 1..Len(r) :
                /\ r[n].SensorID = sensors[Nth(succeeded, n)].SensorID
                /\ r[n].Location = sensors[Nth(succeeded, n)].Location
          /\ \A k \in (1..Len(sensors)) \ succeeded : \A n \in 1..Len(r) :
                r[n].SensorID # sensors[k].SensorID)
    /\ [][sensors' = sensors]_vars

\* Fetch has returned: the first sensor failed, the second succeeded
C20_Witness ==
    /\ pc = "publish" /\ Len(sensors) = 2 /\ attempted = RegistryIds
    /\ succeeded = {2} /\ Len(r) = 1 /\ r[1].SensorID = "B"

====
